---- MODULE Spec2Model ----
(***************************************************************************)
(* Model of stylegen's convert-theme-rgb.js: the HEX -> "R, G, B"          *)
(* conversion, the tonal palette generation, the role-name formatter and   *)
(* the CLI action that walks the light and dark schemes and writes the     *)
(* stylesheet.                                                             *)
(*                                                                         *)
(* JavaScript strings are sequences of one-character strings.  A           *)
(* JavaScript value is a record [t, s]: t is its type tag and s its        *)
(* characters when it is a string (<<>> otherwise).  A JavaScript number   *)
(* produced by parseInt is a record [nan, v].                              *)
(***************************************************************************)
EXTENDS Integers, Sequences, FiniteSets, TLC

\* ------------------------------------------------------------------------
\* Bounds
\* ------------------------------------------------------------------------

\* Longest string handed to hexToRgbValues in HexSpec ('#' plus 6 digits).
MaxLen == 7

\* Characters the strings handed to hexToRgbValues in HexSpec are made of:
\* the prefix, a decimal digit, a lower- and an upper-case hex letter and a
\* letter that is no hex digit.
HexAlphabet == {"#", "1", "a", "F", "g"}

\* ------------------------------------------------------------------------
\* JavaScript values and strings
\* ------------------------------------------------------------------------

Str(s) == [t |-> "string", s |-> s]
JsNull == [t |-> "null", s |-> <<>>]
JsUndefined == [t |-> "undefined", s |-> <<>>]
JsNumber == [t |-> "number", s |-> <<>>]
JsObject == [t |-> "object", s |-> <<>>]

DecDigits == <<"0", "1", "2", "3", "4", "5", "6", "7", "8", "9">>
WhiteSpace == {" ", "\t", "\n", "\r"}

\* The value of each decimal digit.
DigitValue ==
  "0" :> 0 @@ "1" :> 1 @@ "2" :> 2 @@ "3" :> 3 @@ "4" :> 4 @@ "5" :> 5 @@ "6" :> 6 @@ "7" :> 7 @@ "8" :> 8 @@ "9" :> 9

\* The value of each base-16 digit.
HexValue ==
  DigitValue @@
  "a" :> 10 @@ "b" :> 11 @@ "c" :> 12 @@ "d" :> 13 @@ "e" :> 14 @@ "f" :> 15 @@
  "A" :> 10 @@ "B" :> 11 @@ "C" :> 12 @@ "D" :> 13 @@ "E" :> 14 @@ "F" :> 15

\* The lower-case letter of each upper-case letter.
LowerOf ==
  "A" :> "a" @@ "B" :> "b" @@ "C" :> "c" @@ "D" :> "d" @@ "E" :> "e" @@ "F" :> "f" @@ "G" :> "g" @@
  "H" :> "h" @@ "I" :> "i" @@ "J" :> "j" @@ "K" :> "k" @@ "L" :> "l" @@ "M" :> "m" @@ "N" :> "n" @@
  "O" :> "o" @@ "P" :> "p" @@ "Q" :> "q" @@ "R" :> "r" @@ "S" :> "s" @@ "T" :> "t" @@ "U" :> "u" @@
  "V" :> "v" @@ "W" :> "w" @@ "X" :> "x" @@ "Y" :> "y" @@ "Z" :> "z"

LowerLetters == {LowerOf[c] : c \in DOMAIN LowerOf}

IsDigit(c) == c \in DOMAIN DigitValue
IsLower(c) == c \in LowerLetters
IsUpper(c) == c \in DOMAIN LowerOf

\* String.prototype.toLowerCase, one character.
LowerChar(c) == IF IsUpper(c) THEN LowerOf[c] ELSE c

\* The value of a character as a base-16 digit, -1 when it is none.
HexVal(c) == IF c \in DOMAIN HexValue THEN HexValue[c] ELSE -1

IsHexDigit(c) == c \in DOMAIN HexValue

Drop(s, n) == SubSeq(s, n + 1, Len(s))

\* String.prototype.substring(from, to) with 0 <= from <= to.
Substring(s, from, to) ==
  SubSeq(s, (IF from < Len(s) THEN from ELSE Len(s)) + 1,
            IF to < Len(s) THEN to ELSE Len(s))

\* Number -> decimal string, as a template literal prints an integer.
RECURSIVE NatToStr(_)
NatToStr(n) ==
  IF n < 10 THEN <<DecDigits[n + 1]>>
  ELSE NatToStr(n \div 10) \o <<DecDigits[(n % 10) + 1]>>

JsNaN == [nan |-> TRUE, v |-> 0]
JsInt(n) == [nan |-> FALSE, v |-> n]

NumToStr(x) ==
  IF x.nan THEN <<"N", "a", "N">>
  ELSE IF x.v < 0 THEN <<"-">> \o NatToStr(-x.v)
  ELSE NatToStr(x.v)

\* parseInt(s, 16): leading white space is skipped, one sign is read, a
\* "0x"/"0X" prefix is dropped, then the longest prefix of hex digits is the
\* number; with no digit the result is NaN.  Nothing is thrown.
RECURSIVE TrimStart(_)
TrimStart(s) ==
  IF Len(s) > 0 /\ s[1] \in WhiteSpace THEN TrimStart(Tail(s)) ELSE s

RECURSIVE HexPrefixValue(_, _)
HexPrefixValue(s, acc) ==
  IF Len(s) > 0 /\ IsHexDigit(s[1])
  THEN HexPrefixValue(Tail(s), 16 * acc + HexVal(s[1]))
  ELSE acc

ParseInt16(str) ==
  LET t == TrimStart(str)
      neg == Len(t) > 0 /\ t[1] = "-"
      u == IF Len(t) > 0 /\ t[1] \in {"+", "-"} THEN Tail(t) ELSE t
      w == IF Len(u) >= 2 /\ u[1] = "0" /\ u[2] \in {"x", "X"} THEN Drop(u, 2) ELSE u
  IN IF Len(w) = 0 \/ ~IsHexDigit(w[1]) THEN JsNaN
     ELSE JsInt((IF neg THEN -1 ELSE 1) * HexPrefixValue(w, 0))

\* `${r}, ${g}, ${b}`
RgbString(r, g, b) ==
  NumToStr(r) \o <<",", " ">> \o NumToStr(g) \o <<",", " ">> \o NumToStr(b)

\* The literal '0, 0, 0'.
Black == <<"0", ",", " ", "0", ",", " ", "0">>

\* cleanHex.split('').map(char => char + char).join('')
RECURSIVE DoubleChars(_)
DoubleChars(s) ==
  IF s = <<>> THEN <<>> ELSE <<s[1], s[1]>> \o DoubleChars(Tail(s))

\* Mutant of StripHash: every leading '#' is stripped, as hex.replace(/^#+/, '').
RECURSIVE StripHash_AllLeading(_)
StripHash_AllLeading(s) ==
  IF Len(s) > 0 /\ s[1] = "#" THEN StripHash_AllLeading(Tail(s)) ELSE s

\* hex.startsWith('#') ? hex.slice(1) : hex
StripHash(s) == IF Len(s) > 0 /\ s[1] = "#" THEN Tail(s) ELSE s

\* if (cleanHex.length === 3) cleanHex = <each character doubled>
ExpandShort(s) == IF Len(s) = 3 THEN DoubleChars(s) ELSE s

\* Mutant of ParseChannels: the green channel is read one character early.
ParseChannels_GreenOffByOne(cleanHex) ==
  RgbString(ParseInt16(Substring(cleanHex, 0, 2)),
            ParseInt16(Substring(cleanHex, 1, 3)),
            ParseInt16(Substring(cleanHex, 4, 6)))

\* const r/g/b = parseInt(cleanHex.substring(..), 16); return `${r}, ${g}, ${b}`
ParseChannels(cleanHex) ==
  RgbString(ParseInt16(Substring(cleanHex, 0, 2)),
            ParseInt16(Substring(cleanHex, 2, 4)),
            ParseInt16(Substring(cleanHex, 4, 6)))

\* function hexToRgbValues(hex).  The catch branch is unreachable: parseInt
\* and substring throw nothing.
hexToRgbValues(hex) ==
  IF hex.t # "string" \/ hex.s = <<>> THEN Black
  ELSE LET cleanHex == ExpandShort(StripHash(hex.s))
       IN IF Len(cleanHex) # 6 THEN Black ELSE ParseChannels(cleanHex)

\* ------------------------------------------------------------------------
\* Role names, colours and the colour library
\* ------------------------------------------------------------------------

\* Mutant of KEYS_TO_SKIP: the names written in lower case.
KEYS_TO_SKIP_LowerCase ==
  { <<"b", "a", "c", "k", "g", "r", "o", "u", "n", "d">>,
    <<"s", "u", "r", "f", "a", "c", "e">>,
    <<"s", "u", "r", "f", "a", "c", "e", "t", "i", "n", "t">>,
    <<"s", "h", "a", "d", "o", "w">>,
    <<"s", "c", "r", "i", "m">>,
    <<"o", "u", "t", "l", "i", "n", "e">>,
    <<"o", "u", "t", "l", "i", "n", "e", "v", "a", "r", "i", "a", "n", "t">>,
    <<"s", "u", "r", "f", "a", "c", "e", "d", "i", "m">>,
    <<"s", "u", "r", "f", "a", "c", "e", "b", "r", "i", "g", "h", "t">> }

\* const KEYS_TO_SKIP = [...]
KEYS_TO_SKIP ==
  { <<"b", "a", "c", "k", "g", "r", "o", "u", "n", "d">>,
    <<"s", "u", "r", "f", "a", "c", "e">>,
    <<"s", "u", "r", "f", "a", "c", "e", "T", "i", "n", "t">>,
    <<"s", "h", "a", "d", "o", "w">>,
    <<"s", "c", "r", "i", "m">>,
    <<"o", "u", "t", "l", "i", "n", "e">>,
    <<"o", "u", "t", "l", "i", "n", "e", "V", "a", "r", "i", "a", "n", "t">>,
    <<"s", "u", "r", "f", "a", "c", "e", "D", "i", "m">>,
    <<"s", "u", "r", "f", "a", "c", "e", "B", "r", "i", "g", "h", "t">> }

\* function toKebabCase(str): a hyphen between a lower-case letter or digit
\* and the upper-case letter after it, then everything lower-cased.
RECURSIVE InsertHyphens(_)
InsertHyphens(s) ==
  IF Len(s) < 2 THEN s
  ELSE IF (IsLower(s[1]) \/ IsDigit(s[1])) /\ IsUpper(s[2])
       THEN <<s[1], "-">> \o InsertHyphens(Tail(s))
       ELSE <<s[1]>> \o InsertHyphens(Tail(s))

toKebabCase(str) == LET h == InsertHyphens(str) IN [j \in 1..Len(h) |-> LowerChar(h[j])]

\* roleKebab.replace(/-/g, ' ')
DashesToSpaces(s) == [j \in 1..Len(s) |-> IF s[j] = "-" THEN " " ELSE s[j]]

\* An object is the sequence of its properties [key, val] in creation order.
Prop(k, v) == [key |-> k, val |-> v]

RECURSIVE StrToNat(_, _)
StrToNat(s, acc) ==
  IF s = <<>> THEN acc ELSE StrToNat(Tail(s), 10 * acc + DigitValue[s[1]])

\* A property key that is a canonical array index ("0", "7", "950"; not "07").
IsArrayIndex(k) ==
  /\ Len(k) \in 1..9
  /\ \A j \in 1..Len(k) : IsDigit(k[j])
  /\ (Len(k) = 1 \/ k[1] # "0")

\* for (const key in obj): the own keys in property order, which is the
\* array-index keys in ascending numeric order, then the other keys in
\* creation order.
RECURSIVE InsertIndexKey(_, _)
InsertIndexKey(sorted, k) ==
  IF sorted = <<>> \/ StrToNat(sorted[Len(sorted)], 0) <= StrToNat(k, 0)
  THEN Append(sorted, k)
  ELSE Append(InsertIndexKey(SubSeq(sorted, 1, Len(sorted) - 1), k), sorted[Len(sorted)])

RECURSIVE AscendingIndexKeys(_, _)
AscendingIndexKeys(obj, sorted) ==
  IF obj = <<>> THEN sorted
  ELSE AscendingIndexKeys(Tail(obj),
         IF IsArrayIndex(obj[1].key) THEN InsertIndexKey(sorted, obj[1].key) ELSE sorted)

RECURSIVE OtherKeys(_)
OtherKeys(obj) ==
  IF obj = <<>> THEN <<>>
  ELSE (IF IsArrayIndex(obj[1].key) THEN <<>> ELSE <<obj[1].key>>) \o OtherKeys(Tail(obj))

ForInKeys(obj) == AscendingIndexKeys(obj, <<>>) \o OtherKeys(obj)

\* obj[key]
Get(obj, k) == obj[CHOOSE j \in 1..Len(obj) : obj[j].key = k].val

\* chroma-js is a dependency, not code of this repository.  What the program
\* relies on: chroma(c) throws for a value that is no colour (here: a string
\* that is not 3, 4, 6 or 8 hex digits after an optional '#', or a value
\* that is no string), and scale(..).colors(n) returns n strings "#rrggbb".
\* The interpolated values themselves are left open: every call picks its
\* result among the ramps below.
ChromaAccepts(c) ==
  /\ c.t = "string"
  /\ LET h == StripHash(c.s)
     IN Len(h) \in {3, 4, 6, 8} /\ \A j \in 1..Len(h) : IsHexDigit(h[j])

ChromaHexes ==
  << Str(<<"#", "b", "3", "a", "7", "d", "1">>),
     Str(<<"#", "2", "c", "2", "1", "4", "8">>) >>

ChromaThrew == [threw |-> TRUE, colors |-> <<>>]

\* chroma.scale([from, to]).mode('lch')[.padding(..)].colors(n): the outcomes.
ChromaScaleColors(from, to, n) ==
  IF ~ChromaAccepts(from) \/ ~ChromaAccepts(to) THEN {ChromaThrew}
  ELSE { [threw |-> FALSE,
          colors |-> [j \in 1..n |-> ChromaHexes[((j + k) % Len(ChromaHexes)) + 1]]]
         : k \in 1..Len(ChromaHexes) }

White == Str(<<"#", "F", "F", "F", "F", "F", "F">>)
NearBlack == Str(<<"#", "0", "9", "0", "9", "0", "b">>)

\* Mutant of shades: the last shade is missing.
shades_Without950 == <<50, 100, 200, 300, 400, 500, 600, 700, 800, 900>>

\* const shades = [50, 100, 200, 300, 400, 500, 600, 700, 800, 900, 950]
shades == <<50, 100, 200, 300, 400, 500, 600, 700, 800, 900, 950>>

\* Mutant of generatedColors: the base colour is put first, as shade 50.
generatedColors_BaseFirst(lighter, baseColorHex, darker) ==
  <<baseColorHex, lighter[2]>> \o Tail(darker)

\* const generatedColors = [lighterShade, baseColorHex, ...darkerShades]
\* with lighterShade = colors(3)[1] and darkerShades = colors(10).slice(1)
generatedColors(lighter, baseColorHex, darker) ==
  <<lighter[2], baseColorHex>> \o Tail(darker)

\* shades.forEach((shade, index) => { palette[shade] = generatedColors[index]; })
FillPalette(colors) ==
  [j \in 1..Len(shades) |->
     Prop(NatToStr(shades[j]), IF j <= Len(colors) THEN colors[j] ELSE JsUndefined)]

\* The value createTonalPaletteFrom100 returns when the library threw.
NullPalette == <<>>

\* function createTonalPaletteFrom100(baseColorHex): the set of its possible
\* results, NullPalette when a chroma call threw (caught, logged, null).
createTonalPaletteFrom100(baseColorHex) ==
  { IF l.threw \/ d.threw THEN NullPalette
    ELSE FillPalette(generatedColors(l.colors, baseColorHex, d.colors))
    : l \in ChromaScaleColors(White, baseColorHex, 3),
      d \in ChromaScaleColors(baseColorHex, NearBlack, 10) }

\* ------------------------------------------------------------------------
\* State
\* ------------------------------------------------------------------------

VARIABLES
  arg,      \* the argument of the hexToRgbValues call under test
  ret,      \* its return value; <<>> before the call returns
  called,   \* whether the call has returned
  inputFile,                \* the input file: missing, no JSON, JSON null, or a theme
  pc,                       \* where the action is
  schemes,                  \* the parsed theme: [light, dark], objects
  idx,                      \* position in the for..in loop under way
  cssRawVarsOutput,         \* lines pushed so far
  themeRegistrationOutput,  \* lines pushed so far
  outputFile,               \* the lines written to the output file
  exitCode,                 \* the process's exit code, -1 while it runs
  reads,                    \* calls of fs.readFileSync so far
  writes,                   \* calls of fs.writeFileSync so far
  colorHex,                 \* the loop's colorHex, as last assigned
  newPalette,               \* the loop's newPalette, as last assigned
  nullPalettes,             \* <<scheme, role>> of each null createTonalPaletteFrom100 result
  caught                    \* the statement whose error the outer catch caught, or "none"

hexVars == <<arg, ret, called>>
cliVars == <<inputFile, pc, schemes, idx, cssRawVarsOutput, themeRegistrationOutput,
             outputFile, exitCode, reads, writes, colorHex, newPalette, nullPalettes,
             caught>>
vars == <<arg, ret, called, inputFile, pc, schemes, idx, cssRawVarsOutput,
          themeRegistrationOutput, outputFile, exitCode, reads, writes, colorHex,
          newPalette, nullPalettes, caught>>

\* ------------------------------------------------------------------------
\* Output lines
\* ------------------------------------------------------------------------

\* A line is a record: k its kind, text its literal part, name and value the
\* interpolated parts, locked whether " /* Locked Color */" ends it.  role and
\* shade are the loop variables the line was built from (<<>> outside a loop).
Line(k, text, name, value, locked, role, shade) ==
  [k |-> k, text |-> text, name |-> name, value |-> value, locked |-> locked,
   role |-> role, shade |-> shade]

Literal(text) == Line("literal", text, <<>>, <<>>, FALSE, <<>>, <<>>)

\* `\n<indent>/* --- ${roleKebab.replace(/-/g, ' ')} --- */` and the @theme one
CommentLine(text, roleKebab, role) ==
  Line("comment", text, DashesToSpaces(roleKebab), <<>>, FALSE, role, <<>>)

\* `<indent>--md-sys-color-${roleKebab}: ${colorRgbValues}; /* Locked Color */`
BaseDecl(text, roleKebab, rgb, role) ==
  Line("decl", text, roleKebab, rgb, TRUE, role, <<>>)

\* `<indent>--md-sys-color-${roleKebab}-${shade}: ${shadeRgbValues};`
ShadeDecl(text, roleKebab, shade, rgb, role) ==
  Line("decl", text, roleKebab \o <<"-">> \o shade, rgb, FALSE, role, shade)

\* `  --color-${roleKebab}: var(--md-sys-color-${roleKebab}); /* Locked Color */`
BaseReg(roleKebab, role) ==
  Line("reg", "  --color-", roleKebab, roleKebab, TRUE, role, <<>>)

\* `  --color-${roleKebab}-${shade}: var(--md-sys-color-${roleKebab}-${shade});`
ShadeReg(roleKebab, shade, role) ==
  Line("reg", "  --color-", roleKebab \o <<"-">> \o shade,
       roleKebab \o <<"-">> \o shade, FALSE, role, shade)

\* for (const shade in newPalette) { cssRawVarsOutput.push(..) }
PaletteDecls(text, roleKebab, role, palette) ==
  LET ks == ForInKeys(palette)
  IN [j \in 1..Len(ks) |->
        ShadeDecl(text, roleKebab, ks[j], hexToRgbValues(Get(palette, ks[j])), role)]

\* for (const shade in newPalette) { themeRegistrationOutput.push(..) }
PaletteRegs(roleKebab, role, palette) ==
  LET ks == ForInKeys(palette)
  IN [j \in 1..Len(ks) |-> ShadeReg(roleKebab, ks[j], role)]

\* One iteration of the light loop: what it pushes on cssRawVarsOutput.
LightCss(role, hex, palette) ==
  LET roleKebab == toKebabCase(role)
  IN << CommentLine("\n  /* --- ", roleKebab, role),
        BaseDecl("  --md-sys-color-", roleKebab, hexToRgbValues(hex), role) >>
     \o (IF role \notin KEYS_TO_SKIP /\ palette # NullPalette
         THEN PaletteDecls("  --md-sys-color-", roleKebab, role, palette)
         ELSE <<>>)

\* Mutant of LightTheme: the shade registrations are pushed from the shade list,
\* whether or not a palette came back.
LightTheme_RegistersEveryShade(role, palette) ==
  LET roleKebab == toKebabCase(role)
  IN << CommentLine("\n  /* ", roleKebab, role), BaseReg(roleKebab, role) >>
     \o (IF role \notin KEYS_TO_SKIP
         THEN [j \in 1..Len(shades) |-> ShadeReg(roleKebab, NatToStr(shades[j]), role)]
         ELSE <<>>)

\* One iteration of the light loop: what it pushes on themeRegistrationOutput.
LightTheme(role, palette) ==
  LET roleKebab == toKebabCase(role)
  IN << CommentLine("\n  /* ", roleKebab, role), BaseReg(roleKebab, role) >>
     \o (IF role \notin KEYS_TO_SKIP /\ palette # NullPalette
         THEN PaletteRegs(roleKebab, role, palette)
         ELSE <<>>)

\* One iteration of the dark loop: what it pushes on cssRawVarsOutput.
DarkCss(role, hex, palette) ==
  LET roleKebab == toKebabCase(role)
  IN << CommentLine("\n    /* --- ", roleKebab, role),
        BaseDecl("    --md-sys-color-", roleKebab, hexToRgbValues(hex), role) >>
     \o (IF role \notin KEYS_TO_SKIP /\ palette # NullPalette
         THEN PaletteDecls("    --md-sys-color-", roleKebab, role, palette)
         ELSE <<>>)

\* Mutant of DarkTheme: the dark loop registers its roles as the light loop does.
DarkTheme_Registers(role, palette) == LightTheme(role, palette)

\* One iteration of the dark loop: what it pushes on themeRegistrationOutput
\* (nothing: lines 174-192 never touch the array).
DarkTheme(role, palette) == <<>>

\* The palettes an iteration may get: none is asked for a skipped role.
PalettesFor(role, hex) ==
  IF role \in KEYS_TO_SKIP THEN {NullPalette} ELSE createTonalPaletteFrom100(hex)

Banner == "/* ================================================================== */"
MediaDark == "@media (prefers-color-scheme: dark) {"

\* const finalCssOutput = [...cssRawVarsOutput, <3 comment lines>, ...themeRegistrationOutput]
finalCssOutput(css, theme) ==
  css \o << Literal(Banner),
            Literal("/* TOKEN REGISTRATION FOR TAILWIND v4 @theme                    */"),
            Literal(Banner) >>
      \o theme

\* ------------------------------------------------------------------------
\* Input files
\* ------------------------------------------------------------------------

\* The most roles a theme has, light and dark together.
MaxRoles == 2

Primary == <<"p", "r", "i", "m", "a", "r", "y">>
SurfaceTint == <<"s", "u", "r", "f", "a", "c", "e", "T", "i", "n", "t">>
Seven == <<"7">>
Ten == <<"1", "0">>
RoleNames == {Primary, SurfaceTint, Seven, Ten}

\* A colour the library parses and a string it rejects.
ColorValues ==
  { Str(<<"#", "6", "7", "5", "0", "A", "4">>),
    Str(<<"z", "z", "z">>) }

Keys(obj) == {obj[j].key : j \in 1..Len(obj)}

\* The objects made of one more property than those of objs: distinct keys,
\* any creation order.
OneMoreProp(objs) ==
  UNION { { Append(o, Prop(k, v)) : k \in RoleNames \ Keys(o), v \in ColorValues }
          : o \in objs }

\* <<the objects with 0 properties, those with 1, ..., those with n>>
RECURSIVE ObjectsBySize(_)
ObjectsBySize(n) ==
  IF n = 0 THEN << {<<>>} >>
  ELSE LET smaller == ObjectsBySize(n - 1)
       IN Append(smaller, OneMoreProp(smaller[n]))

\* The themes of at most MaxRoles roles, light and dark together.
Themes ==
  LET objs == ObjectsBySize(MaxRoles)
  IN UNION { { [isNull |-> FALSE, light |-> l, dark |-> d] :
                 l \in objs[nl + 1], d \in UNION {objs[nd + 1] : nd \in 0..(MaxRoles - nl)} }
             : nl \in 0..MaxRoles }

NoSchemes == [isNull |-> FALSE, light |-> <<>>, dark |-> <<>>]
\* JSON.parse("null"): reading .light of it throws a TypeError.
NullSchemes == [isNull |-> TRUE, light |-> <<>>, dark |-> <<>>]

InputFiles ==
  { [kind |-> "missing", json |-> NoSchemes],
    [kind |-> "invalid", json |-> NoSchemes],
    [kind |-> "json", json |-> NullSchemes] }
  \cup { [kind |-> "json", json |-> th] : th \in Themes }

\* ------------------------------------------------------------------------
\* Spec: one run of the CLI action
\* ------------------------------------------------------------------------

Init ==
  /\ arg = JsNull /\ ret = <<>> /\ called = FALSE
  /\ inputFile \in InputFiles
  /\ pc = "read"
  /\ schemes = NoSchemes
  /\ idx = 0
  /\ cssRawVarsOutput = <<>>
  /\ themeRegistrationOutput = <<>>
  /\ outputFile = <<>>
  /\ exitCode = -1
  /\ reads = 0
  /\ writes = 0
  /\ colorHex = JsUndefined
  /\ newPalette = NullPalette
  /\ nullPalettes = {}
  /\ caught = "none"

\* Mutant of Fail: the error is printed and process.exit(1) is not called.
Fail_NoExit(statement) ==
  /\ caught' = statement
  /\ pc' = "exited"
  /\ exitCode' = 0

\* catch (error) { ...; process.exit(1); }
Fail(statement) ==
  /\ caught' = statement
  /\ pc' = "exited"
  /\ exitCode' = 1

\* Where control is: the statement, loop test or branch about to run.
AtRead == pc = "read"
AtParse == pc = "parse"
AtSchemesTypeError == pc = "light" /\ schemes.isNull
AtLightRole == pc = "light" /\ ~schemes.isNull /\ idx <= Len(ForInKeys(schemes.light))
AtLightEnd == pc = "light" /\ ~schemes.isNull /\ idx > Len(ForInKeys(schemes.light))
AtDarkRole == pc = "dark" /\ idx <= Len(ForInKeys(schemes.dark))
AtDarkEnd == pc = "dark" /\ idx > Len(ForInKeys(schemes.dark))
AtWrite == pc = "write"

\* fs.readFileSync(inputPath, 'utf8')
ReadFile ==
  /\ AtRead
  /\ reads' = reads + 1
  /\ IF inputFile.kind = "missing"
     THEN Fail("read")
     ELSE pc' = "parse" /\ UNCHANGED <<exitCode, caught>>
  /\ UNCHANGED <<hexVars, inputFile, schemes, idx, cssRawVarsOutput,
                 themeRegistrationOutput, outputFile, writes, colorHex, newPalette,
                 nullPalettes>>

\* JSON.parse(..), then the two arrays and the lines pushed before the light loop
ParseJson ==
  /\ AtParse
  /\ IF inputFile.kind = "invalid"
     THEN Fail("parse")
          /\ UNCHANGED <<schemes, idx, cssRawVarsOutput, themeRegistrationOutput>>
     ELSE /\ schemes' = inputFile.json
          /\ cssRawVarsOutput' =
               << Literal(Banner),
                  Literal("/* MATERIAL DESIGN COLOR TOKENS (LIGHT & DARK)                  */"),
                  Literal("/* ================================================================== */\n"),
                  Literal(":root {") >>
          /\ themeRegistrationOutput' = << Literal("@theme {") >>
          /\ idx' = 1
          /\ pc' = "light"
          /\ UNCHANGED <<exitCode, caught>>
  /\ UNCHANGED <<hexVars, inputFile, outputFile, reads, writes, colorHex, newPalette,
                 nullPalettes>>

\* schemes.light with schemes null: a TypeError, caught by the outer catch
SchemesTypeError ==
  /\ AtSchemesTypeError
  /\ Fail("schemes.light")
  /\ UNCHANGED <<hexVars, inputFile, schemes, idx, cssRawVarsOutput,
                 themeRegistrationOutput, outputFile, reads, writes, colorHex, newPalette,
                 nullPalettes>>

\* One iteration of for (const role in schemes.light)
LightRole ==
  /\ AtLightRole
  /\ LET role == ForInKeys(schemes.light)[idx]
         hex == Get(schemes.light, role)
     IN \E palette \in PalettesFor(role, hex) :
          /\ colorHex' = hex
          /\ newPalette' = palette
          /\ cssRawVarsOutput' = cssRawVarsOutput \o LightCss(role, hex, palette)
          /\ themeRegistrationOutput' =
               themeRegistrationOutput \o LightTheme(role, palette)
          /\ nullPalettes' =
               IF role \notin KEYS_TO_SKIP /\ palette = NullPalette
               THEN nullPalettes \cup {<<"light", role>>}
               ELSE nullPalettes
  /\ idx' = idx + 1
  /\ UNCHANGED <<hexVars, inputFile, pc, schemes, outputFile, exitCode, reads, writes,
                 caught>>

\* After the light loop: '}\n', the media query and its ':root {'
LightEnd ==
  /\ AtLightEnd
  /\ cssRawVarsOutput' =
       cssRawVarsOutput \o << Literal("}\n"), Literal(MediaDark), Literal("  :root {") >>
  /\ idx' = 1
  /\ pc' = "dark"
  /\ UNCHANGED <<hexVars, inputFile, schemes, themeRegistrationOutput, outputFile,
                 exitCode, reads, writes, colorHex, newPalette, nullPalettes, caught>>

\* One iteration of for (const role in schemes.dark)
DarkRole ==
  /\ AtDarkRole
  /\ LET role == ForInKeys(schemes.dark)[idx]
         hex == Get(schemes.dark, role)
     IN \E palette \in PalettesFor(role, hex) :
          /\ colorHex' = hex
          /\ newPalette' = palette
          /\ cssRawVarsOutput' = cssRawVarsOutput \o DarkCss(role, hex, palette)
          /\ themeRegistrationOutput' =
               themeRegistrationOutput \o DarkTheme(role, palette)
          /\ nullPalettes' =
               IF role \notin KEYS_TO_SKIP /\ palette = NullPalette
               THEN nullPalettes \cup {<<"dark", role>>}
               ELSE nullPalettes
  /\ idx' = idx + 1
  /\ UNCHANGED <<hexVars, inputFile, pc, schemes, outputFile, exitCode, reads, writes,
                 caught>>

\* After the dark loop: the closing lines of both arrays
DarkEnd ==
  /\ AtDarkEnd
  /\ cssRawVarsOutput' = cssRawVarsOutput \o << Literal("  }"), Literal("}\n") >>
  /\ themeRegistrationOutput' = themeRegistrationOutput \o << Literal("}") >>
  /\ pc' = "write"
  /\ UNCHANGED <<hexVars, inputFile, schemes, idx, outputFile, exitCode, reads, writes,
                 colorHex, newPalette, nullPalettes, caught>>

\* fs.writeFileSync(outputPath, finalCssOutput.join('\n'), 'utf8'): it writes the
\* file, or throws and the catch exits with 1.  On success the action returns
\* and the process ends with code 0.
WriteFile ==
  /\ AtWrite
  /\ writes' = writes + 1
  /\ \E ok \in BOOLEAN :
       IF ok
       THEN /\ outputFile' = finalCssOutput(cssRawVarsOutput, themeRegistrationOutput)
            /\ pc' = "exited"
            /\ exitCode' = 0
            /\ UNCHANGED caught
       ELSE Fail("write") /\ UNCHANGED outputFile
  /\ UNCHANGED <<hexVars, inputFile, schemes, idx, cssRawVarsOutput,
                 themeRegistrationOutput, reads, colorHex, newPalette, nullPalettes>>

Next ==
  \/ ReadFile
  \/ ParseJson
  \/ SchemesTypeError
  \/ LightRole
  \/ LightEnd
  \/ DarkRole
  \/ DarkEnd
  \/ WriteFile

Spec == Init /\ [][Next]_vars

\* ------------------------------------------------------------------------
\* HexSpec: one call of hexToRgbValues on an arbitrary argument
\* ------------------------------------------------------------------------

RECURSIVE StringsUpTo(_)
StringsUpTo(n) ==
  IF n = 0 THEN {<<>>}
  ELSE LET shorter == StringsUpTo(n - 1)
       IN shorter \cup {Append(s, c) : s \in {x \in shorter : Len(x) = n - 1}, c \in HexAlphabet}

HexInputs(n) ==
  {Str(s) : s \in StringsUpTo(n)} \cup {JsNull, JsUndefined, JsNumber, JsObject}

HexInit ==
  /\ arg \in HexInputs(MaxLen)
  /\ ret = <<>>
  /\ called = FALSE
  /\ inputFile = [kind |-> "missing", json |-> NoSchemes]
  /\ pc = "idle"
  /\ schemes = NoSchemes
  /\ idx = 0
  /\ cssRawVarsOutput = <<>>
  /\ themeRegistrationOutput = <<>>
  /\ outputFile = <<>>
  /\ exitCode = -1
  /\ reads = 0
  /\ writes = 0
  /\ colorHex = JsUndefined
  /\ newPalette = NullPalette
  /\ nullPalettes = {}
  /\ caught = "none"

\* hexToRgbValues(arg) is called and returns.
HexCall ==
  /\ ~called
  /\ ret' = hexToRgbValues(arg)
  /\ called' = TRUE
  /\ UNCHANGED <<arg, cliVars>>

HexNext == HexCall

HexSpec == HexInit /\ [][HexNext]_vars

\* ------------------------------------------------------------------------
\* Properties of hexToRgbValues (HexSpec)
\* ------------------------------------------------------------------------

AllHexDigits(s) == \A j \in 1..Len(s) : s[j] \in DOMAIN HexValue

\* The string without its one optional leading '#'.
AfterHash(s) == IF s # <<>> /\ s[1] = "#" THEN SubSeq(s, 2, Len(s)) ELSE s

\* The byte two hex digits denote.
ByteOf(hi, lo) == 16 * HexValue[hi] + HexValue[lo]

\* "R, G, B" of three naturals.
Triple(r, g, b) ==
  NatToStr(r) \o <<",", " ">> \o NatToStr(g) \o <<",", " ">> \o NatToStr(b)

\* C2: for a string of exactly 6 hex digits, either case, after one optional
\* '#', hexToRgbValues returns "R, G, B" with R, G, B the three bytes of the
\* digits, each in 0..255; for exactly 3 hex digits d1 d2 d3 it returns what
\* it returns for d1 d1 d2 d2 d3 d3, the bytes 17*d1, 17*d2, 17*d3.
C2_HexDecomposition ==
  (called /\ arg.t = "string" /\ AllHexDigits(AfterHash(arg.s))) =>
    LET h == AfterHash(arg.s)
    IN /\ Len(h) = 6 =>
            /\ ret = Triple(ByteOf(h[1], h[2]), ByteOf(h[3], h[4]), ByteOf(h[5], h[6]))
            /\ {ByteOf(h[1], h[2]), ByteOf(h[3], h[4]), ByteOf(h[5], h[6])} \subseteq 0..255
       /\ Len(h) = 3 =>
            /\ ret = Triple(ByteOf(h[1], h[1]), ByteOf(h[2], h[2]), ByteOf(h[3], h[3]))
            /\ ret = hexToRgbValues(Str(<<h[1], h[1], h[2], h[2], h[3], h[3]>>))

\* "#Fa1aF1" has been converted to "250, 26, 241".
C2_Witness ==
  /\ called
  /\ arg = Str(<<"#", "F", "a", "1", "a", "F", "1">>)
  /\ ret = <<"2", "5", "0", ",", " ", "2", "6", ",", " ", "2", "4", "1">>

\* C3: hexToRgbValues returns exactly "0, 0, 0" for every argument that is
\* no string, for the empty string, and for every string whose length after
\* one leading '#' is stripped is neither 3 nor 6.
C3_FallbackBlack ==
  (called /\ (arg.t # "string" \/ arg.s = <<>> \/ Len(AfterHash(arg.s)) \notin {3, 6})) =>
    ret = <<"0", ",", " ", "0", ",", " ", "0">>

\* "##1aF" (4 characters after the first '#') has been converted to "0, 0, 0".
C3_Witness ==
  /\ called
  /\ arg = Str(<<"#", "#", "1", "a", "F">>)
  /\ ret = <<"0", ",", " ", "0", ",", " ", "0">>

\* A decimal numeral of 0..255, as a template literal prints it.
IsByteNumeral(s) ==
  /\ Len(s) \in 1..3
  /\ \A j \in 1..Len(s) : s[j] \in DOMAIN DigitValue
  /\ (Len(s) = 1 \/ s[1] # "0")
  /\ StrToNat(s, 0) <= 255

\* "R, G, B" with three numerals of 0..255.
IsByteTriple(s) ==
  \E p \in 2..(Len(s) - 1) : \E q \in (p + 3)..(Len(s) - 1) :
    /\ SubSeq(s, p, p + 1) = <<",", " ">>
    /\ SubSeq(s, q, q + 1) = <<",", " ">>
    /\ IsByteNumeral(SubSeq(s, 1, p - 1))
    /\ IsByteNumeral(SubSeq(s, p + 2, q - 1))
    /\ IsByteNumeral(SubSeq(s, q + 2, Len(s)))

\* C4: for every argument hexToRgbValues returns three integers of 0..255,
\* and a string of length 3 or 6 (after the '#') that holds a character that
\* is no hex digit is mapped to "0, 0, 0".
C4_MalformedIsBlack ==
  called =>
    /\ IsByteTriple(ret)
    /\ (/\ arg.t = "string"
        /\ Len(AfterHash(arg.s)) \in {3, 6}
        /\ ~AllHexDigits(AfterHash(arg.s))) => ret = <<"0", ",", " ", "0", ",", " ", "0">>

\* ------------------------------------------------------------------------
\* Properties of the CLI action (Spec)
\* ------------------------------------------------------------------------

LightPrefix == "  --md-sys-color-"
DarkPrefix == "    --md-sys-color-"

\* The declarations of one block, in order.
DeclsOf(lines, prefix) ==
  SelectSeq(lines, LAMBDA l : l.k = "decl" /\ l.text = prefix)

RegsOf(lines) == SelectSeq(lines, LAMBDA l : l.k = "reg")

\* The roles of a block's base declarations, in order.
RoleOrder(lines, prefix) ==
  LET bases == SelectSeq(lines, LAMBDA l : l.k = "decl" /\ l.text = prefix /\ l.shade = <<>>)
  IN [j \in 1..Len(bases) |-> bases[j].role]

\* Both loops have run to their end.
LoopsDone == pc = "write" \/ (pc = "exited" /\ writes = 1)

\* The line lists to look at: the array, and the file once it is written.
CssLists == {cssRawVarsOutput, outputFile}

Shade100 == <<"1", "0", "0">>

\* C1: a palette that createTonalPaletteFrom100 returns for base colour c
\* has c itself, unmodified, as its shade 100; so every declaration
\* --md-sys-color-<role>-100 carries the value of the base declaration
\* --md-sys-color-<role> of the same role in the same block.
C1_Shade100IsBase ==
  /\ newPalette # NullPalette =>
       \E j \in 1..Len(newPalette) :
         newPalette[j].key = Shade100 /\ newPalette[j].val = colorHex
  /\ \A lines \in CssLists : \A p \in 1..Len(lines) :
       (lines[p].k = "decl" /\ lines[p].shade = Shade100) =>
         \E q \in 1..(p - 1) :
           /\ lines[q].k = "decl" /\ lines[q].shade = <<>>
           /\ lines[q].role = lines[p].role
           /\ lines[q].text = lines[p].text
           /\ lines[p].name = lines[q].name \o <<"-">> \o Shade100
           /\ lines[p].value = lines[q].value

\* The file holds --md-sys-color-primary-100: 103, 80, 164.
C1_Witness ==
  /\ pc = "exited"
  /\ \E p \in 1..Len(outputFile) :
       /\ outputFile[p].k = "decl"
       /\ outputFile[p].name = Primary \o <<"-">> \o Shade100
       /\ outputFile[p].value = <<"1", "0", "3", ",", " ", "8", "0", ",", " ", "1", "6", "4">>

\* The skip-list as the specification gives it.
SkipList ==
  { <<"b", "a", "c", "k", "g", "r", "o", "u", "n", "d">>,
    <<"s", "u", "r", "f", "a", "c", "e">>,
    <<"s", "u", "r", "f", "a", "c", "e", "T", "i", "n", "t">>,
    <<"s", "h", "a", "d", "o", "w">>,
    <<"s", "c", "r", "i", "m">>,
    <<"o", "u", "t", "l", "i", "n", "e">>,
    <<"o", "u", "t", "l", "i", "n", "e", "V", "a", "r", "i", "a", "n", "t">>,
    <<"s", "u", "r", "f", "a", "c", "e", "D", "i", "m">>,
    <<"s", "u", "r", "f", "a", "c", "e", "B", "r", "i", "g", "h", "t">> }

\* C5: in both schemes a role of the skip-list produces no shade declaration
\* and no shade registration, in the arrays or in the file; what it gets is
\* its base declaration alone.
C5_SkipListNoShades ==
  /\ \A lines \in {cssRawVarsOutput, themeRegistrationOutput, outputFile} :
       \A p \in 1..Len(lines) :
         lines[p].role \in SkipList => lines[p].shade = <<>>
  /\ LoopsDone =>
       \A lines \in CssLists \ {<<>>} :
         /\ \A r \in SkipList \cap Keys(schemes.light) :
              Len(SelectSeq(DeclsOf(lines, LightPrefix), LAMBDA l : l.role = r)) = 1
         /\ \A r \in SkipList \cap Keys(schemes.dark) :
              Len(SelectSeq(DeclsOf(lines, DarkPrefix), LAMBDA l : l.role = r)) = 1

\* The file holds the base declaration of surfaceTint in both blocks.
C5_Witness ==
  /\ pc = "exited" /\ exitCode = 0
  /\ \A prefix \in {LightPrefix, DarkPrefix} :
       \E p \in 1..Len(outputFile) :
         /\ outputFile[p].k = "decl" /\ outputFile[p].text = prefix
         /\ outputFile[p].role = SurfaceTint
         /\ outputFile[p].name = <<"s", "u", "r", "f", "a", "c", "e", "-", "t", "i", "n", "t">>

\* The shades as the specification lists them, as the text of a name.
ShadeNames ==
  << <<"5", "0">>, <<"1", "0", "0">>, <<"2", "0", "0">>, <<"3", "0", "0">>,
     <<"4", "0", "0">>, <<"5", "0", "0">>, <<"6", "0", "0">>, <<"7", "0", "0">>,
     <<"8", "0", "0">>, <<"9", "0", "0">>, <<"9", "5", "0">> >>

SchemeOf(line) == IF line.text = LightPrefix THEN "light" ELSE "dark"

\* Every base declaration of a role outside the skip-list whose palette was
\* generated is followed at once by its 11 shade declarations, in ascending
\* shade order, and by no 12th.
PaletteBlocks(lines) ==
  \A p \in 1..Len(lines) :
    (/\ lines[p].k = "decl" /\ lines[p].shade = <<>>
     /\ lines[p].role \notin SkipList
     /\ <<SchemeOf(lines[p]), lines[p].role>> \notin nullPalettes) =>
      /\ p + Len(ShadeNames) <= Len(lines)
      /\ \A j \in 1..Len(ShadeNames) :
           /\ lines[p + j].k = "decl"
           /\ lines[p + j].text = lines[p].text
           /\ lines[p + j].role = lines[p].role
           /\ lines[p + j].shade = ShadeNames[j]
           /\ lines[p + j].name = lines[p].name \o <<"-">> \o ShadeNames[j]
      /\ p + Len(ShadeNames) < Len(lines) => lines[p + Len(ShadeNames) + 1].k # "decl"

\* The keys of the input mapping in the order the file gives them.
InputOrder(obj) == [j \in 1..Len(obj) |-> obj[j].key]

\* C6 as stated: the palette blocks, with the roles in the order of the input
\* mapping.
C6_RolesInInputOrder ==
  LoopsDone =>
    \A lines \in CssLists \ {<<>>} :
      /\ PaletteBlocks(lines)
      /\ RoleOrder(lines, LightPrefix) = InputOrder(inputFile.json.light)
      /\ RoleOrder(lines, DarkPrefix) = InputOrder(inputFile.json.dark)

\* A name that is a canonical array index.
IsIndexName(k) ==
  /\ k # <<>>
  /\ \A j \in 1..Len(k) : k[j] \in DOMAIN DigitValue
  /\ (Len(k) = 1 \/ k[1] # "0")

PositionIn(obj, k) == CHOOSE j \in 1..Len(obj) : obj[j].key = k

\* rs holds the keys of obj: the index names first, in ascending numeric
\* order, then the other names in the order obj gives them.
IsEnumerationOrder(rs, obj) ==
  /\ Len(rs) = Len(obj)
  /\ {rs[j] : j \in 1..Len(rs)} = {obj[j].key : j \in 1..Len(obj)}
  /\ \A a \in 1..Len(rs) : \A b \in (a + 1)..Len(rs) :
       IF IsIndexName(rs[b])
       THEN IsIndexName(rs[a]) /\ StrToNat(rs[a], 0) < StrToNat(rs[b], 0)
       ELSE IsIndexName(rs[a]) \/ PositionIn(obj, rs[a]) < PositionIn(obj, rs[b])

\* C6, amended: the palette blocks, with the roles in the enumeration order
\* of the parsed mapping: roles whose names are array indices first, in
\* ascending numeric order, then the other roles in the order of the input.
C6_PaletteBlocksInEnumerationOrder ==
  LoopsDone =>
    \A lines \in CssLists \ {<<>>} :
      /\ PaletteBlocks(lines)
      /\ IsEnumerationOrder(RoleOrder(lines, LightPrefix), inputFile.json.light)
      /\ IsEnumerationOrder(RoleOrder(lines, DarkPrefix), inputFile.json.dark)

\* For an input that names role 10 before role 7, the file holds role 7 with
\* its 11 shades and then role 10 with its 11 shades.
C6_Witness ==
  /\ pc = "exited" /\ exitCode = 0
  /\ InputOrder(inputFile.json.light) = <<Ten, Seven>>
  /\ RoleOrder(outputFile, LightPrefix) = <<Seven, Ten>>
  /\ Len(DeclsOf(outputFile, LightPrefix)) = 2 * (1 + Len(ShadeNames))

\* C7: when palette generation throws for a role, the role gets its base
\* declaration and no shade declaration (and, in the light scheme, its base
\* registration and no shade registration); the roles after it are processed
\* as they would have been; the write is made as it would have been, and the
\* run then ends with exit code 0.
C7_NullPaletteIsSkipped ==
  /\ \A e \in nullPalettes :
       LET prefix == IF e[1] = "light" THEN LightPrefix ELSE DarkPrefix
           ds == SelectSeq(DeclsOf(cssRawVarsOutput, prefix), LAMBDA l : l.role = e[2])
           rs == SelectSeq(RegsOf(themeRegistrationOutput), LAMBDA l : l.role = e[2])
       IN /\ Len(ds) = 1 /\ ds[1].shade = <<>> /\ ds[1].locked
          /\ e[1] = "light" => Len(rs) = 1 /\ rs[1].shade = <<>>
  /\ (nullPalettes # {} /\ pc = "exited") =>
       /\ writes = 1
       /\ caught \in {"none", "write"}
       /\ caught = "none" =>
            /\ exitCode = 0
            /\ outputFile = finalCssOutput(cssRawVarsOutput, themeRegistrationOutput)
            /\ Len(RoleOrder(outputFile, LightPrefix)) = Len(schemes.light)
            /\ Len(RoleOrder(outputFile, DarkPrefix)) = Len(schemes.dark)
            /\ PaletteBlocks(outputFile)

\* The light role 7 had no palette, the dark role primary after it has its 11
\* shades, and the file is written.
C7_Witness ==
  /\ pc = "exited" /\ exitCode = 0
  /\ nullPalettes = {<<"light", Seven>>}
  /\ RoleOrder(outputFile, DarkPrefix) = <<Primary>>
  /\ Len(DeclsOf(outputFile, LightPrefix)) = 1
  /\ Len(DeclsOf(outputFile, DarkPrefix)) = 1 + Len(ShadeNames)

\* The registrations of theme are those of the declarations decls: one each,
\* in the same order, and theme holds nothing else but its braces and comments.
ThemeMirrors(theme, decls) ==
  LET regs == RegsOf(theme)
  IN /\ Len(regs) = Len(decls)
     /\ \A j \in 1..Len(regs) :
          /\ regs[j].text = "  --color-"
          /\ regs[j].name = decls[j].name
          /\ regs[j].value = decls[j].name
     /\ \A p \in 1..Len(theme) :
          \/ theme[p].k \in {"reg", "comment"}
          \/ theme[p] \in {Literal("@theme {"), Literal("}")}

\* The lines of the file from its "@theme {" on.
ThemeBlockOf(lines) ==
  LET start == CHOOSE p \in 1..Len(lines) : lines[p] = Literal("@theme {")
  IN SubSeq(lines, start, Len(lines))

\* C8: the @theme block registers the declarations of the light :root block,
\* one registration each, in the same order, and nothing else; the dark loop
\* leaves it as it is, so nothing of the dark scheme alone is registered.
C8_ThemeMirrorsLight ==
  /\ pc \in {"light", "dark", "write", "exited"} /\ caught # "parse" =>
       ThemeMirrors(themeRegistrationOutput, DeclsOf(cssRawVarsOutput, LightPrefix))
  /\ outputFile # <<>> =>
       ThemeMirrors(ThemeBlockOf(outputFile), DeclsOf(outputFile, LightPrefix))

\* The file declares the shades of the dark role primary, the light scheme
\* has role 7 alone, and the theme block registers 7 and its shades only.
C8_Witness ==
  /\ pc = "exited" /\ exitCode = 0
  /\ RoleOrder(outputFile, LightPrefix) = <<Seven>>
  /\ RoleOrder(outputFile, DarkPrefix) = <<Primary>>
  /\ Len(DeclsOf(outputFile, DarkPrefix)) = 1 + Len(ShadeNames)
  /\ Len(RegsOf(outputFile)) = 1 + Len(ShadeNames)

\* How far the action has got.
Rank(p) ==
  CASE p = "read" -> 0 [] p = "parse" -> 1 [] p = "light" -> 2
    [] p = "dark" -> 3 [] p = "write" -> 4 [] p = "exited" -> 5

C9_State ==
  /\ reads <= 1 /\ writes <= 1
  /\ \/ pc = "exited"
     \/ AtRead \/ AtParse \/ AtSchemesTypeError \/ AtLightRole \/ AtLightEnd
     \/ AtDarkRole \/ AtDarkEnd \/ AtWrite
  /\ pc # "exited" => exitCode = -1
  /\ writes = 1 =>
       /\ pc = "exited"
       /\ Len(RoleOrder(cssRawVarsOutput, LightPrefix)) = Len(inputFile.json.light)
       /\ Len(RoleOrder(cssRawVarsOutput, DarkPrefix)) = Len(inputFile.json.dark)
  /\ pc = "exited" =>
       /\ reads = 1
       /\ exitCode \in {0, 1}
       /\ exitCode = 1 <=> caught # "none"
       /\ caught = "read" <=> inputFile.kind = "missing"
       /\ caught = "parse" <=> inputFile.kind = "invalid"
       /\ caught = "schemes.light" <=> (inputFile.kind = "json" /\ inputFile.json.isNull)
       /\ caught \in {"read", "parse", "schemes.light"} => writes = 0 /\ outputFile = <<>>
       /\ caught = "write" => writes = 1 /\ outputFile = <<>>
       /\ caught = "none" => writes = 1 /\ outputFile # <<>>

C9_Step ==
  /\ reads' \in {reads, reads + 1}
  /\ writes' \in {writes, writes + 1}
  /\ \/ Rank(pc') > Rank(pc)
     \/ /\ pc' = pc /\ pc \in {"light", "dark"}
        /\ idx' = idx + 1
        /\ idx <= Len(IF pc = "light" THEN schemes.light ELSE schemes.dark)

\* C9: a run reads once, writes at most once, never goes back or retries,
\* has a statement to run until it exits and exits after a bounded number
\* of steps; it exits with 1 exactly when the
\* read, the parse, the processing or the write raised an error, with no
\* write attempted after a failed read or parse; otherwise it writes once,
\* after both loops have run to their end, and exits with 0.
C9_SingleShot == [](C9_State) /\ [][C9_Step]_vars

\* A run of a theme with a light and a dark role has written and exited with 0.
C9_Witness ==
  /\ pc = "exited" /\ exitCode = 0 /\ reads = 1 /\ writes = 1
  /\ Len(inputFile.json.light) = 1 /\ Len(inputFile.json.dark) = 1
  /\ outputFile # <<>>

====
